---- MODULE Spec2Model ----
(***************************************************************************)
(* State-machine model of the OAuth2 scheme of @nuxtjs-alt/auth            *)
(* (src/@nuxtjs-alt/auth/src/runtime/schemes/oauth2.ts).                   *)
(*                                                                         *)
(* The scheme instance, the universal storage it persists into and the     *)
(* collaborators it drives (Token, RefreshToken, RequestHandler, Auth)     *)
(* are one record, `auth`; every method of the scheme is an operator from  *)
(* such a record to the record after the call.  A method that suspends at  *)
(* an `await` is cut at the await into one operator per segment, and the   *)
(* locals that live across the await are kept in the run's record.         *)
(***************************************************************************)
EXTENDS Integers, Sequences, FiniteSets, TLC

VARIABLES
    options,    \* this.options and this.$auth.options, fixed at construction
    server,     \* process.server
    auth,       \* scheme + $auth + $storage state, and the effects of the last step
    route,      \* useRoute(): the URL the page is loaded on
    runs,       \* the invocations of mounted(), one record per invocation
    logins,     \* the invocations of login(), one record per invocation
    refresh,    \* RefreshController and the running refreshTokens()
    calls,      \* the requests sent through the request interceptor
    op          \* the step taken last, with its arguments and result

vars == <<options, server, auth, route, runs, logins, refresh, calls, op>>

-----------------------------------------------------------------------------
(* Bounds of the model *)

MaxRuns == 2        \* invocations of mounted()
MaxLogins == 1      \* invocations of login()
MaxCalls == 2       \* callers of the interceptor and of refreshTokens at a time
MaxOverlap == 2     \* invocations of login() at a time where logins overlap

-----------------------------------------------------------------------------
(* Values *)

\* JavaScript's null / undefined / an absent property
Null == "null"

\* values of the state parameter: what randomString(10) may return
States == {"xyz"}
\* values generateRandomString() may return
Verifiers == {"v1"}

Truthy(v) == v \notin {Null, ""}

\* the token and refresh-token values a callback URL may carry, and those a
\* token endpoint may answer with
UrlTokens == {Null, "", "T0"}
UrlRefreshTokens == {Null, "R0"}
UrlCodes == {Null, "abc"}
UrlStates == {Null, "xyz", "bad"}
ResponseTokens == {Null, "T1"}
ResponseRefreshTokens == {Null, "R1"}

\* $auth.$state.user: false (unset), {} or a profile
NoUser == "false"
EmptyUser == "{}"
\* the profiles the user-info endpoint answers with
Users == {"alice"}

NoResponse == [access_token |-> Null, refresh_token |-> Null]

NoParams == [state |-> Null, access_token |-> Null, refresh_token |-> Null, code |-> Null]

-----------------------------------------------------------------------------
(* Collaborators: storage, Token, RefreshToken, RequestHandler, Auth *)

\* a call the scheme makes on a collaborator: `fx` is the set of the calls of the
\* step, `order` the calls in the order they were made
Effect(a, e) == [a EXCEPT !.fx = @ \cup {e}, !.order = Append(@, e)]

getUniversal(a, key) == a.storage[key]

setUniversal(a, key, value) == [a EXCEPT !.storage[key] = value]

\* Token.set / RefreshToken.set: the value with an expiry of now + maxAge
NewToken(value) == [value |-> value, expired |-> FALSE]

TokenSet(a, value) == Effect([a EXCEPT !.token = NewToken(value)], "token.set")

RefreshTokenSet(a, value) ==
    Effect([a EXCEPT !.refreshToken = NewToken(value)], "refreshToken.set")

\* Token.sync / RefreshToken.get: the stored value
TokenSync(a) == a.token.value

RefreshTokenGet(a) == a.refreshToken.value

\* status().expired(): a store with no value has no status to be expired
Expired(store) == Truthy(store.value) /\ store.expired

\* Token.reset / RefreshToken.reset: value and expiry cleared
TokenReset(a) == [a EXCEPT !.token = NewToken(Null)]

RefreshTokenReset(a) == [a EXCEPT !.refreshToken = NewToken(Null)]

\* RequestHandler
clearHeader(a) == Effect([a EXCEPT !.header = Null], "clearHeader")

RequestHandlerReset(a) == [a EXCEPT !.header = Null]

initializeRequestInterceptor(a) ==
    Effect([a EXCEPT !.interceptor = TRUE], "initializeRequestInterceptor")

\* Auth.setUser
setUser(a, user) == [a EXCEPT !.user = user]

\* getProp(response, property)
getProp(response, property) == response[property]

-----------------------------------------------------------------------------
(* check, reset *)

\* the status evaluated whether asked for or not
check_StatusAlways(a, checkStatus) ==
    LET response == [valid |-> FALSE, tokenExpired |-> FALSE,
                     refreshTokenExpired |-> FALSE, isRefreshable |-> TRUE]
        token == TokenSync(a)
    IN  IF ~Truthy(token) THEN response
        ELSE IF Expired(a.refreshToken) THEN [response EXCEPT !.refreshTokenExpired = TRUE]
        ELSE IF Expired(a.token) THEN [response EXCEPT !.tokenExpired = TRUE]
        ELSE [response EXCEPT !.valid = TRUE]

\* the access token's expiry evaluated before the refresh token's
check_TokenFirst(a, checkStatus) ==
    LET response == [valid |-> FALSE, tokenExpired |-> FALSE,
                     refreshTokenExpired |-> FALSE, isRefreshable |-> TRUE]
        token == TokenSync(a)
    IN  IF ~Truthy(token) THEN response
        ELSE IF ~checkStatus THEN [response EXCEPT !.valid = TRUE]
        ELSE IF Expired(a.token) THEN [response EXCEPT !.tokenExpired = TRUE]
        ELSE IF Expired(a.refreshToken) THEN [response EXCEPT !.refreshTokenExpired = TRUE]
        ELSE [response EXCEPT !.valid = TRUE]

\* the two expiries reported side by side, with no return in between
check_NoReturn(a, checkStatus) ==
    LET response == [valid |-> FALSE, tokenExpired |-> FALSE,
                     refreshTokenExpired |-> FALSE, isRefreshable |-> TRUE]
        token == TokenSync(a)
    IN  IF ~Truthy(token) THEN response
        ELSE IF ~checkStatus THEN [response EXCEPT !.valid = TRUE]
        ELSE [response EXCEPT !.refreshTokenExpired = Expired(a.refreshToken),
                              !.tokenExpired = Expired(a.token),
                              !.valid = ~Expired(a.refreshToken) /\ ~Expired(a.token)]

\* lines 124-165
check(a, checkStatus) ==
    LET response == [valid |-> FALSE, tokenExpired |-> FALSE,
                     refreshTokenExpired |-> FALSE, isRefreshable |-> TRUE]
        token == TokenSync(a)
    IN  IF ~Truthy(token) THEN response
        ELSE IF ~checkStatus THEN [response EXCEPT !.valid = TRUE]
        ELSE IF Expired(a.refreshToken) THEN [response EXCEPT !.refreshTokenExpired = TRUE]
        ELSE IF Expired(a.token) THEN [response EXCEPT !.tokenExpired = TRUE]
        ELSE [response EXCEPT !.valid = TRUE]

\* the refresh token left in its store
reset_KeepsRefreshToken(a) ==
    Effect(RequestHandlerReset(TokenReset(setUser(a, NoUser))), "reset")

\* lines 189-194
reset(a) ==
    Effect(RequestHandlerReset(RefreshTokenReset(TokenReset(setUser(a, NoUser)))), "reset")

\* Auth.reset: delegates to the active scheme's reset
AuthReset(a) == reset(a)

-----------------------------------------------------------------------------
(* logout *)

\* requrl(this.req), and $auth.options.redirect.logout
Origin == "https://app"
LogoutPath == "/"

urlJoin(base, path) == base \o path

\* lines 120-122
logoutRedirectURI ==
    IF Truthy(options.logoutRedirectUri) THEN options.logoutRedirectUri
    ELSE urlJoin(Origin, LogoutPath)

\* window.location.replace(endpoints.logout + '?' + encodeQuery(opts))
logoutUrl(opts) ==
    [endpoint |-> "logout", client_id |-> opts.client_id, redirect_uri |-> opts.redirect_uri]

\* the session kept when the browser is sent to the logout endpoint
logout_RedirectOnly(a) ==
    IF options.logout
    THEN Effect([a EXCEPT !.location =
                    logoutUrl([client_id |-> options.clientId,
                               redirect_uri |-> logoutRedirectURI])], "location.replace")
    ELSE AuthReset(a)

\* lines 307-317
logout(a) ==
    LET opts == [client_id |-> options.clientId, redirect_uri |-> logoutRedirectURI]
        a1 == IF options.logout
              THEN Effect([a EXCEPT !.location = logoutUrl(opts)], "location.replace")
              ELSE a
    IN  AuthReset(a1)

-----------------------------------------------------------------------------
(* fetchUser *)

\* the locals of mounted() and #handleCallback() that live across an await
NoLocals == [token |-> Null, refreshToken |-> Null, codeVerifier |-> Null,
             state |-> Null, replay |-> FALSE]

\* the user-info endpoint asked, or the empty user set, with no token present
fetchUser_NoCheck(a) ==
    IF ~options.userInfo
    THEN [auth |-> Effect(setUser(a, EmptyUser), "setUser"), pc |-> "done",
          loc |-> NoLocals]
    ELSE [auth |-> Effect(a, "userInfo"), pc |-> "userInfo", loc |-> NoLocals]

\* lines 319-334, up to the return or the await of the user-info request
fetchUser(a) ==
    IF ~check(a, FALSE).valid THEN [auth |-> a, pc |-> "done", loc |-> NoLocals]
    ELSE IF ~options.userInfo
         THEN [auth |-> Effect(setUser(a, EmptyUser), "setUser"), pc |-> "done",
               loc |-> NoLocals]
         ELSE [auth |-> Effect(a, "userInfo"), pc |-> "userInfo", loc |-> NoLocals]

\* line 333, after the user-info request resolved with `response`
fetchUserResume(a, response) == Effect(setUser(a, response), "setUser")

\* Auth.fetchUserOnce: fetches the user unless one is set
fetchUserOnce(a) ==
    IF a.user = NoUser THEN fetchUser(Effect(a, "fetchUserOnce"))
    ELSE [auth |-> Effect(a, "fetchUserOnce"), pc |-> "done", loc |-> NoLocals]

-----------------------------------------------------------------------------
(* #handleCallback *)

CallbackPath == "/callback"
Paths == {"/callback", "/callback/", "/"}

\* normalizePath: the path without its trailing slash
normalizePath(path) ==
    CASE path = "/callback/" -> "/callback"
      [] path = "/" -> ""
      [] OTHER -> path

\* Object.assign({}, route.query, parseQuery(route.hash.slice(1)))
parsedQuery(r) ==
    [k \in DOMAIN NoParams |-> IF r.hash[k] # Null THEN r.hash[k] ELSE r.query[k]]

\* the refresh token and the opener served before the token is looked at
handleCallbackFinish_RefreshFirst(a, r, token, refreshToken) ==
    LET a1 == IF Truthy(refreshToken) THEN RefreshTokenSet(a, refreshToken) ELSE a
        a2 == IF options.clientWindow /\ r.opener THEN Effect(a1, "postMessage") ELSE a1
    IN  IF ~Truthy(token) THEN [auth |-> a2, pc |-> "return", result |-> FALSE,
                                loc |-> NoLocals]
        ELSE [auth |-> TokenSet(a2, token), pc |-> "return", result |-> FALSE,
              loc |-> NoLocals]

\* lines 394-417: what #handleCallback does with the token it resolved
handleCallbackFinish(a, r, token, refreshToken) ==
    IF ~Truthy(token) THEN [auth |-> a, pc |-> "return", result |-> FALSE, loc |-> NoLocals]
    ELSE
        LET a1 == TokenSet(a, token)
            a2 == IF Truthy(refreshToken) THEN RefreshTokenSet(a1, refreshToken) ELSE a1
        IN  IF options.clientWindow
            THEN [auth |-> IF r.opener THEN Effect(a2, "postMessage") ELSE a2,
                  pc |-> "return", result |-> FALSE, loc |-> NoLocals]
            ELSE IF options.watchLoggedIn
                 THEN [auth |-> Effect(a2, "redirect"), pc |-> "return", result |-> TRUE,
                       loc |-> NoLocals]
                 ELSE [auth |-> a2, pc |-> "return", result |-> FALSE, loc |-> NoLocals]

\* the state compared only when the URL carries one
stateMismatch_UrlStateOnly(state, urlState) ==
    Truthy(state) /\ Truthy(urlState) /\ urlState # state

\* lines 358-363: true when the callback is to be ignored
stateMismatch(state, urlState) == Truthy(state) /\ urlState # state

\* the handler run on every route
notCallbackRoute_Never(r) == FALSE

\* line 339: the route is not the callback route of the redirect options; with
\* the redirect options disabled no route is excluded
notCallbackRoute(r) ==
    options.redirect /\ normalizePath(r.path) # normalizePath(CallbackPath)

\* the handler run in the server context too
processServer_Never == FALSE

\* line 343: process.server
processServer == server

\* the verifier left in storage
clearVerifier_Keeps(a) == a

\* line 372: the stored verifier deleted
clearVerifier(a) == setUniversal(a, "pkce_code_verifier", Null)

\* lines 336-388: #handleCallback up to its return or the await of the token request
handleCallback(a, r) ==
    LET pq == parsedQuery(r)
        token == pq.access_token
        refreshToken == IF options.refreshTokenProperty THEN pq.refresh_token ELSE Null
        state == getUniversal(a, "state")
        a1 == Effect(setUniversal(a, "state", Null), "consume")
        pkce == Truthy(options.codeChallengeMethod)
                    /\ options.codeChallengeMethod # "implicit"
        codeVerifier == IF pkce THEN getUniversal(a1, "pkce_code_verifier") ELSE Null
        a2 == IF pkce THEN clearVerifier(a1) ELSE a1
    IN  IF notCallbackRoute(r)
        THEN [auth |-> a, pc |-> "return", result |-> FALSE, loc |-> NoLocals]
        ELSE IF processServer
        THEN [auth |-> a, pc |-> "return", result |-> FALSE, loc |-> NoLocals]
        ELSE IF stateMismatch(state, pq.state)
        THEN [auth |-> a1, pc |-> "return", result |-> FALSE, loc |-> NoLocals]
        ELSE IF options.responseType = "code" /\ Truthy(pq.code)
        THEN [auth |-> Effect(a2, "request"), pc |-> "await", result |-> FALSE,
              loc |-> [token |-> token, refreshToken |-> refreshToken,
                       codeVerifier |-> codeVerifier, state |-> state,
                       replay |-> r.handled]]
        ELSE handleCallbackFinish(a1, r, token, refreshToken)

\* the URL's token and refresh token kept over the response's
handleCallbackResume_UrlFirst(a, r, loc, response) ==
    LET fromResponse == getProp(response, "access_token")
        token == IF Truthy(loc.token) THEN loc.token ELSE fromResponse
        refreshFromResponse == IF options.refreshTokenProperty
                               THEN getProp(response, "refresh_token") ELSE Null
        refreshToken == IF Truthy(loc.refreshToken) THEN loc.refreshToken
                        ELSE refreshFromResponse
    IN  handleCallbackFinish(a, r, token, refreshToken)

\* lines 390-417: #handleCallback after the token request resolved with `response`
handleCallbackResume(a, r, loc, response) ==
    LET fromResponse == getProp(response, "access_token")
        token == IF Truthy(fromResponse) THEN fromResponse ELSE loc.token
        refreshFromResponse == IF options.refreshTokenProperty
                               THEN getProp(response, "refresh_token") ELSE Null
        refreshToken == IF Truthy(refreshFromResponse) THEN refreshFromResponse
                        ELSE loc.refreshToken
    IN  handleCallbackFinish(a, r, token, refreshToken)

-----------------------------------------------------------------------------
(* mounted *)

\* the user fetched whether or not #handleCallback redirected
mountedTail_AlwaysFetch(h) == fetchUserOnce(h.auth)

\* lines 184-186: mounted() once #handleCallback has returned `h.result`
mountedTail(h) ==
    IF h.result THEN [auth |-> h.auth, pc |-> "done", loc |-> NoLocals]
    ELSE fetchUserOnce(h.auth)

\* the reset left to the auto-logout policy alone
mounted_NoForcedReset(a, r) ==
    LET response == check(a, TRUE)
        a1 == IF response.tokenExpired /\ options.autoLogout THEN AuthReset(a) ELSE a
        h == handleCallback(initializeRequestInterceptor(a1), r)
    IN  IF h.pc = "await" THEN [auth |-> h.auth, pc |-> "exchange", loc |-> h.loc]
        ELSE mountedTail(h)

\* the session reset on an expired access token whatever the auto-logout policy
mounted_AlwaysLogout(a, r) ==
    LET response == check(a, TRUE)
        a1 == IF response.refreshTokenExpired \/ response.tokenExpired
              THEN AuthReset(a) ELSE a
        h == handleCallback(initializeRequestInterceptor(a1), r)
    IN  IF h.pc = "await" THEN [auth |-> h.auth, pc |-> "exchange", loc |-> h.loc]
        ELSE mountedTail(h)

\* lines 167-187: mounted() up to its return or its first suspended await
mounted(a, r) ==
    LET response == check(a, TRUE)
        a1 == IF response.refreshTokenExpired
                    \/ (response.tokenExpired /\ options.autoLogout)
              THEN AuthReset(a) ELSE a
        h == handleCallback(initializeRequestInterceptor(a1), r)
    IN  IF h.pc = "await" THEN [auth |-> h.auth, pc |-> "exchange", loc |-> h.loc]
        ELSE mountedTail(h)

\* mounted() after the token request of #handleCallback resolved
mountedResume(a, r, loc, response) ==
    mountedTail(handleCallbackResume(a, r, loc, response))

-----------------------------------------------------------------------------
(* login *)

\* lines 484-488: three of the strings generateRandomString can return, 28 times
\* two hexadecimal digits; "v1" stands for a fourth wherever only its identity
\* matters
GeneratedStrings ==
    {"8be2916947c503d2292237c3b4b1df2454627e18ef10d1873058ad77",
     "97f4d0869e7af25e57cacc428f7bcd4b1bdd6ad1fe37d68129451ab2",
     "38e4370e50d033242b11f85d7594f5ccd85a5a9b8f24d9ce26b6afcf"}

\* the strings pkceChallengeFromVerifier is applied to
PkceInputs == Verifiers \cup GeneratedStrings

\* lines 490-494: the SHA-256 digest of the UTF-8 encoding of `plain`, 32 bytes
sha256(plain) ==
    CASE plain = "v1" ->
            <<59, 252, 38, 149, 148, 239, 100, 146, 40, 233, 167, 75, 171, 0, 240, 66,
              239, 201, 29, 90, 204, 111, 190, 227, 26, 56, 46, 128, 212, 35, 136, 254>>
      [] plain = "8be2916947c503d2292237c3b4b1df2454627e18ef10d1873058ad77" ->
            <<146, 79, 142, 88, 150, 233, 110, 9, 142, 77, 100, 25, 213, 62, 126, 43,
              176, 52, 253, 233, 229, 58, 26, 96, 220, 8, 69, 251, 105, 91, 144, 52>>
      [] plain = "97f4d0869e7af25e57cacc428f7bcd4b1bdd6ad1fe37d68129451ab2" ->
            <<156, 165, 109, 222, 179, 182, 248, 125, 210, 39, 34, 201, 135, 131, 8, 235,
              8, 121, 176, 3, 186, 3, 237, 77, 123, 137, 34, 127, 3, 185, 15, 168>>
      [] plain = "38e4370e50d033242b11f85d7594f5ccd85a5a9b8f24d9ce26b6afcf" ->
            <<175, 210, 127, 162, 63, 41, 170, 108, 209, 12, 98, 247, 164, 13, 44, 34,
              121, 115, 108, 33, 215, 58, 113, 153, 163, 132, 225, 131, 54, 88, 95, 139>>

Base64Alphabet == "ABCDEFGHIJKLMNOPQRSTUVWXYZabcdefghijklmnopqrstuvwxyz0123456789+/"

\* the base64 digit of a number below 64
Base64Digit(n) == SubSeq(Base64Alphabet, n + 1, n + 1)

\* btoa(String.fromCharCode.apply(null, new Uint8Array(str))), lines 502: three
\* bytes make four digits, what is left over is padded with "="
RECURSIVE btoa(_)
btoa(bytes) ==
    IF Len(bytes) = 0 THEN ""
    ELSE IF Len(bytes) = 1
    THEN Base64Digit(bytes[1] \div 4) \o Base64Digit((bytes[1] % 4) * 16) \o "=="
    ELSE IF Len(bytes) = 2
    THEN Base64Digit(bytes[1] \div 4)
            \o Base64Digit((bytes[1] % 4) * 16 + bytes[2] \div 16)
            \o Base64Digit((bytes[2] % 16) * 4) \o "="
    ELSE Base64Digit(bytes[1] \div 4)
            \o Base64Digit((bytes[1] % 4) * 16 + bytes[2] \div 16)
            \o Base64Digit((bytes[2] % 16) * 4 + bytes[3] \div 64)
            \o Base64Digit(bytes[3] % 64)
            \o btoa(SubSeq(bytes, 4, Len(bytes)))

\* String.prototype.replace with a global one-character pattern
RECURSIVE replaceAll(_, _, _)
replaceAll(str, pattern, replacement) ==
    IF str = "" THEN ""
    ELSE (IF SubSeq(str, 1, 1) = pattern THEN replacement ELSE SubSeq(str, 1, 1))
            \o replaceAll(SubSeq(str, 2, Len(str)), pattern, replacement)

\* .replace(/=+$/, '')
RECURSIVE trimPadding(_)
trimPadding(str) ==
    IF str # "" /\ SubSeq(str, Len(str), Len(str)) = "="
    THEN trimPadding(SubSeq(str, 1, Len(str) - 1))
    ELSE str

\* the padding left in place
base64UrlEncode_Padded(bytes) == replaceAll(replaceAll(btoa(bytes), "+", "-"), "/", "_")

\* lines 496-506
base64UrlEncode(bytes) ==
    trimPadding(replaceAll(replaceAll(btoa(bytes), "+", "-"), "/", "_"))

\* #sha256 followed by #base64UrlEncode on the strings of the model
Challenges == [v \in PkceInputs |-> base64UrlEncode(sha256(v))]

\* lines 476-482
pkceChallengeFromVerifier(v, hashValue) == IF hashValue THEN Challenges[v] ELSE v

\* window.encodeURIComponent, line 242, on the characters of base64 and base64url:
\* letters, digits, "-" and "_" are kept, "+", "/" and "=" are escaped
RECURSIVE encodeURIComponent(_)
encodeURIComponent(str) ==
    IF str = "" THEN ""
    ELSE LET ch == SubSeq(str, 1, 1)
         IN  (CASE ch = "+" -> "%2B"
                [] ch = "/" -> "%2F"
                [] ch = "=" -> "%3D"
                [] OTHER -> ch) \o encodeURIComponent(SubSeq(str, 2, Len(str)))

NoLoginLocals == [state |-> Null, codeVerifier |-> Null]

\* lines 207-212: the state of opts is $opts.state or else a random string, and a
\* state among $opts.params, spread last, replaces it
optsState(optState, random, paramState) ==
    IF paramState # Null THEN paramState
    ELSE IF Truthy(optState) THEN optState ELSE random

\* lines 251-292: login() from the end of the PKCE block on; `opened` is what
\* window.open returns, a window ("open") or null
loginFinish(a, loc, codeChallenge, opened) ==
    LET a1 == Effect(setUniversal(a, "state", loc.state), "setUniversal.state")
        a2 == [a1 EXCEPT !.url = [state |-> loc.state, code_challenge |-> codeChallenge]]
        ref == a.window.ref
    IN  IF ~options.clientWindow THEN Effect(a2, "location.replace")
        ELSE IF ref = "undefined" THEN Effect(a2, "throw")
        ELSE IF ref = "null" \/ ref = "closed"
        THEN Effect([a2 EXCEPT !.window.ref = opened,
                               !.window.watchers = Append(@, a.strategy)], "window.open")
        ELSE Effect(a2, "focus")

\* the verifier handed to the challenge but not persisted
login_VerifierUnsaved(a, state, pkceState, codeVerifier, opened) ==
    IF options.codeChallengeMethod \in {"plain", "S256"}
    THEN [auth |-> setUniversal(a, "pkce_state", pkceState),
          pc |-> "challenge",
          loc |-> [state |-> state, codeVerifier |-> codeVerifier]]
    ELSE [auth |-> loginFinish(a, [state |-> state, codeVerifier |-> Null], Null, opened),
          pc |-> "idle", loc |-> NoLoginLocals]

\* lines 196-241: login() up to the await of the PKCE challenge, or, with no PKCE
\* method, to its end
login(a, state, pkceState, codeVerifier, opened) ==
    IF options.codeChallengeMethod \in {"plain", "S256"}
    THEN [auth |-> setUniversal(setUniversal(a, "pkce_state", pkceState),
                                "pkce_code_verifier", codeVerifier),
          pc |-> "challenge",
          loc |-> [state |-> state, codeVerifier |-> codeVerifier]]
    ELSE [auth |-> loginFinish(a, [state |-> state, codeVerifier |-> Null], Null, opened),
          pc |-> "idle", loc |-> NoLoginLocals]

\* login() after pkceChallengeFromVerifier resolved
loginResume(a, loc, opened) ==
    loginFinish(a, loc,
                encodeURIComponent(
                    pkceChallengeFromVerifier(loc.codeVerifier,
                                              options.codeChallengeMethod = "S256")),
                opened)

-----------------------------------------------------------------------------
(* refreshTokens, RefreshController, the request interceptor *)

\* the refresh token written whatever the response carries
updateTokens_AlwaysBoth(a, response) ==
    RefreshTokenSet(TokenSet(a, getProp(response, "access_token")),
                    getProp(response, "refresh_token"))

\* lines 465-474
updateTokens(a, response) ==
    LET token == getProp(response, "access_token")
        refreshToken == getProp(response, "refresh_token")
        a1 == TokenSet(a, token)
    IN  IF Truthy(refreshToken) THEN RefreshTokenSet(a1, refreshToken) ELSE a1

\* the token endpoint asked with no refresh token at hand
refreshTokens_NoPresenceCheck(a) ==
    IF Expired(a.refreshToken)
    THEN [auth |-> Effect(AuthReset(a), "throw"), pc |-> "throw"]
    ELSE [auth |-> Effect(clearHeader(a), "request"), pc |-> "await"]

\* the session kept, and the request sent, with an expired refresh token
refreshTokens_NoExpiryCheck(a) ==
    LET refreshToken == RefreshTokenGet(a)
    IN  IF ~Truthy(refreshToken) THEN [auth |-> a, pc |-> "return"]
        ELSE [auth |-> Effect(clearHeader(a), "request"), pc |-> "await"]

\* lines 419-454: refreshTokens() up to its return, its throw or the await of the
\* token request
refreshTokens(a) ==
    LET refreshToken == RefreshTokenGet(a)
    IN  IF ~Truthy(refreshToken) THEN [auth |-> a, pc |-> "return"]
        ELSE IF Expired(a.refreshToken)
        THEN [auth |-> Effect(AuthReset(a), "throw"), pc |-> "throw"]
        ELSE [auth |-> Effect(clearHeader(a), "request"), pc |-> "await"]

\* the rejection passed on without a word to the error callback
refreshTokensFailed_Silent(a, error) == [auth |-> Effect(a, "throw"), error |-> error]

\* lines 455-458: the token request failed with `error`: what the scheme does, and
\* the error refreshTokens() rejects with
refreshTokensFailed(a, error) ==
    [auth |-> Effect(Effect([a EXCEPT !.onError = error], "onError"), "throw"),
     error |-> error]

\* lines 460-462: the token request resolved with `response`
refreshTokensResume(a, response) == updateTokens(a, response)

NoRefresh == [pending |-> FALSE, requests |-> 0]

\* a refresh started whether or not one is pending
handleRefresh_NoDedup(a, rf) ==
    LET t == refreshTokens(a)
    IN  CASE t.pc = "await" ->
                [auth |-> t.auth, status |-> "pending",
                 refresh |-> [pending |-> TRUE, requests |-> rf.requests + 1]]
          [] t.pc = "return" -> [auth |-> t.auth, refresh |-> rf, status |-> "ok"]
          [] t.pc = "throw" -> [auth |-> t.auth, refresh |-> rf, status |-> "error"]

\* RefreshController.handleRefresh: the pending refresh if there is one, else a
\* new refreshTokens(); `status` is what the caller gets at once, or "pending"
handleRefresh(a, rf) ==
    IF rf.pending THEN [auth |-> a, refresh |-> rf, status |-> "pending"]
    ELSE LET t == refreshTokens(a)
         IN  CASE t.pc = "await" ->
                     [auth |-> t.auth, status |-> "pending",
                      refresh |-> [pending |-> TRUE, requests |-> rf.requests + 1]]
               [] t.pc = "return" -> [auth |-> t.auth, refresh |-> rf, status |-> "ok"]
               [] t.pc = "throw" -> [auth |-> t.auth, refresh |-> rf, status |-> "error"]

\* the errors a request may fail with, and the error of line 435
Errors == {"timeout", "invalid_grant"}
ExpiredAuthSessionError == "ExpiredAuthSessionError"

NoOutcome == [status |-> Null, response |-> NoResponse, error |-> Null]

IdleCall == [kind |-> "request", pc |-> "idle", retries |-> 0, refreshes |-> 0,
             outcome |-> NoOutcome]

\* every authorization failure answered with a refresh and a retry
onUnauthorized_AlwaysRefresh(call) == "refresh"

\* the interceptor on an authorization failure: refresh then retry for the
\* original request, the failure itself for a request that was retried
onUnauthorized(call) == IF call.retries = 0 THEN "refresh" ELSE "surface"

\* a caller that waited for the refresh learns its outcome: the interceptor
\* retries the original request once when the refresh succeeded
settle(call, outcome) ==
    IF call.kind = "request" /\ outcome.status = "ok"
    THEN [call EXCEPT !.pc = "retry", !.retries = @ + 1, !.outcome = outcome]
    ELSE [IdleCall EXCEPT !.kind = call.kind, !.outcome = outcome]

-----------------------------------------------------------------------------
(* State space *)

Runs == 1..MaxRuns
Logins == 1..MaxLogins
Calls == 1..MaxCalls

UrlParams == [state: UrlStates, access_token: UrlTokens,
              refresh_token: UrlRefreshTokens, code: UrlCodes]

\* the URL carrying `p`: an authorization code comes in the query, a token and
\* what comes with it in the fragment
Url(path, p, opener) ==
    LET inHash == p.access_token # Null
        moved == [NoParams EXCEPT !.state = p.state, !.access_token = p.access_token,
                                  !.refresh_token = p.refresh_token]
        kept == [NoParams EXCEPT !.code = p.code]
    IN  [path |-> path,
         query |-> IF inHash THEN kept ELSE p,
         hash |-> IF inHash THEN moved ELSE NoParams,
         opener |-> opener, handled |-> FALSE]

\* the URLs a page is loaded on: the callback route with every combination of
\* state, token, refresh token and code, an empty token next to the stored state,
\* the same in a popup for the callbacks that carry the stored state, and two
\* other routes with a callback's parameters
Routes ==
    {Url(CallbackPath, p, FALSE) :
        p \in {q \in UrlParams : q.access_token = "" => q.state = "xyz"}}
        \cup {Url(CallbackPath, p, TRUE) :
                p \in {q \in UrlParams : q.state = "xyz" /\ q.refresh_token = Null}}
        \cup {Url(path, p, FALSE) : path \in Paths \ {CallbackPath},
                                    p \in {q \in UrlParams : /\ q.state = "xyz"
                                                             /\ q.access_token = "T0"
                                                             /\ q.refresh_token = Null}}

HomeRoute == Url("/", NoParams, FALSE)

SessionRoutes ==
    {HomeRoute,
     Url(CallbackPath, [NoParams EXCEPT !.access_token = "T0"], FALSE),
     Url(CallbackPath, [NoParams EXCEPT !.access_token = "T0", !.refresh_token = "R0"],
         FALSE)}

TokenResponses == [access_token: ResponseTokens, refresh_token: ResponseRefreshTokens]

\* the answers to the token request of a callback: those, and one with an empty token
ExchangeResponses == TokenResponses \cup {[access_token |-> "", refresh_token |-> "R1"]}

IdleRun == [pc |-> "idle", loc |-> NoLocals]
IdleLogin == [pc |-> "idle", loc |-> NoLoginLocals]

\* the URL of window.location.replace on logout: none yet
NoLocation == [endpoint |-> Null, client_id |-> Null, redirect_uri |-> Null]

InitAuth ==
    [token |-> NewToken(Null), refreshToken |-> NewToken(Null), user |-> NoUser,
     header |-> Null, interceptor |-> FALSE,
     storage |-> [state |-> Null, pkce_state |-> Null, pkce_code_verifier |-> Null],
     window |-> [ref |-> "undefined", watchers |-> <<>>],
     strategy |-> "oauth2",
     url |-> [state |-> Null, code_challenge |-> Null],
     location |-> NoLocation,
     fx |-> {}, order |-> <<>>, onError |-> Null]

\* DEFAULTS, lines 40-82, and the defaults of the module options
DefaultOptions ==
    [responseType |-> "token", codeChallengeMethod |-> "implicit", autoLogout |-> FALSE,
     clientWindow |-> FALSE, watchLoggedIn |-> TRUE, redirect |-> TRUE,
     userInfo |-> FALSE, logout |-> FALSE, refreshTokenProperty |-> TRUE,
     clientId |-> "client", logoutRedirectUri |-> Null]

\* the call of pkceChallengeFromVerifier a step has awaited, line 241: none
NoCall == [v |-> Null, hashValue |-> FALSE, result |-> Null]

\* op: the step's name; the stored state its callback handler found; the response
\* it resumed with; whether it belongs to a replay, a load of the URL on which a
\* handler consumed a stored state already, with no login() in between; the
\* argument and the result of its check(); whether it found the refresh token
\* expired
NoResult == [valid |-> FALSE, tokenExpired |-> FALSE, refreshTokenExpired |-> FALSE,
             isRefreshable |-> TRUE]

\* what a step found in the stores and in memory before it ran
Before(a) == [token |-> a.token, refreshToken |-> a.refreshToken, user |-> a.user,
              header |-> a.header]

NoBefore == [token |-> NewToken(Null), refreshToken |-> NewToken(Null), user |-> NoUser,
             header |-> Null]

NoOp == [name |-> "init", replay |-> FALSE, stored |-> Null, response |-> NoResponse,
         checkStatus |-> FALSE, result |-> NoResult, refreshExpired |-> FALSE,
         before |-> NoBefore, error |-> Null, call |-> NoCall]

ClearFx(a) == [a EXCEPT !.fx = {}, !.order = <<>>, !.onError = Null]

\* the lowest free slot is the one a new invocation takes
FreeLogin(l) ==
    logins[l].pc = "idle" /\ \A j \in DOMAIN logins : j < l => logins[j].pc # "idle"

-----------------------------------------------------------------------------
(* Steps *)

\* constructor, lines 92-108: a scheme over the storage the page finds; what the
\* page before held in memory (user, header, interceptor, popup handle) is gone
construct(a) ==
    [InitAuth EXCEPT !.token = a.token, !.refreshToken = a.refreshToken,
                     !.storage = a.storage, !.url = a.url]

\* the browser loads the page on URL r: the scheme is constructed and mounted() runs;
\* whatever the page before was waiting for is never resumed
LoadOn(routes) ==
    \E r \in routes :
        \* only a popup that login() opened has an opener
        /\ r.opener => options.clientWindow
        /\ LET replay == route.handled /\ r = [route EXCEPT !.handled = FALSE]
               m == mounted(construct(auth), [r EXCEPT !.handled = replay])
               consumed == "consume" \in m.auth.fx /\ Truthy(auth.storage.state)
           IN  /\ auth' = m.auth
               /\ runs' = [i \in Runs |-> IF i = 1 THEN [pc |-> m.pc, loc |-> m.loc]
                                          ELSE IdleRun]
               /\ logins' = [l \in DOMAIN logins |-> IdleLogin]
               /\ route' = [r EXCEPT !.handled = replay \/ consumed]
               /\ op' = [NoOp EXCEPT !.name = "mounted", !.replay = replay,
                                     !.stored = auth.storage.state,
                                     !.checkStatus = TRUE,
                                     !.result = check(construct(auth), TRUE)]
        /\ UNCHANGED <<options, server, refresh, calls>>

Load == LoadOn(Routes)

\* the page is loaded again in the course of a session: on the home route, or on
\* the callback route with what a finished login brings
Reload == LoadOn(SessionRoutes)

\* the token endpoint answers the request of #handleCallback
TokenResponse ==
    \E i \in Runs, response \in ExchangeResponses :
        /\ runs[i].pc = "exchange"
        /\ LET m == mountedResume(ClearFx(auth), route, runs[i].loc, response)
           IN  /\ auth' = m.auth
               /\ runs' = [runs EXCEPT ![i] = [pc |-> m.pc, loc |-> m.loc]]
               /\ op' = [NoOp EXCEPT !.name = "tokenResponse",
                                     !.replay = runs[i].loc.replay,
                                     !.stored = runs[i].loc.state,
                                     !.response = response]
        /\ UNCHANGED <<options, server, route, logins, refresh, calls>>

\* the request of #handleCallback fails: mounted() rejects
TokenFailure ==
    \E i \in Runs :
        /\ runs[i].pc = "exchange"
        /\ auth' = Effect(ClearFx(auth), "throw")
        /\ runs' = [runs EXCEPT ![i] = [pc |-> "done", loc |-> NoLocals]]
        /\ op' = [NoOp EXCEPT !.name = "tokenFailure", !.replay = runs[i].loc.replay,
                              !.stored = runs[i].loc.state]
        /\ UNCHANGED <<options, server, route, logins, refresh, calls>>

\* login($opts) is called with a state among `optStates` and, in its params, a
\* state among `paramStates` (Null: none given); generateRandomString returns
\* the verifier among `verifiers`
LoginOf(optStates, paramStates, verifiers) ==
    \E l \in DOMAIN logins, optState \in optStates, paramState \in paramStates,
       random \in States, pkceState \in Verifiers, codeVerifier \in verifiers,
       opened \in {"open", "null"} :
        /\ FreeLogin(l)
        /\ ~server
        /\ options.clientWindow \/ opened = "open"
        /\ LET g == login(ClearFx(auth), optsState(optState, random, paramState),
                          pkceState, codeVerifier, opened)
           IN  /\ auth' = g.auth
               /\ logins' = [logins EXCEPT ![l] = [pc |-> g.pc, loc |-> g.loc]]
        /\ route' = [route EXCEPT !.handled = FALSE]
        /\ op' = [NoOp EXCEPT !.name = "login"]
        /\ UNCHANGED <<options, server, runs, refresh, calls>>

\* login() is called with no options
Login == LoginOf({Null}, {Null}, Verifiers)

\* the PKCE challenge of a suspended login() is computed
LoginResume ==
    \E l \in DOMAIN logins, opened \in {"open", "null"} :
        /\ logins[l].pc = "challenge"
        /\ options.clientWindow \/ opened = "open"
        /\ auth' = loginResume(ClearFx(auth), logins[l].loc, opened)
        /\ logins' = [logins EXCEPT ![l] = IdleLogin]
        /\ route' = [route EXCEPT !.handled = FALSE]
        /\ op' = [NoOp EXCEPT
                    !.name = "loginResume",
                    !.call = [v |-> logins[l].loc.codeVerifier,
                              hashValue |-> options.codeChallengeMethod = "S256",
                              result |-> pkceChallengeFromVerifier(
                                            logins[l].loc.codeVerifier,
                                            options.codeChallengeMethod = "S256")]]
        /\ UNCHANGED <<options, server, runs, refresh, calls>>

-----------------------------------------------------------------------------
(* The callback flow: login, the redirect back, mounted() *)

Init ==
    /\ \E rt \in {"token", "code"}, ccm \in {"implicit", "S256"}, w \in BOOLEAN,
          cw \in BOOLEAN :
            \* in popup mode the redirect home is not looked at, line 406
            /\ cw => (w /\ (rt = "code" <=> ccm = "S256"))
            /\ options = [DefaultOptions EXCEPT !.responseType = rt,
                                                !.codeChallengeMethod = ccm,
                                                !.watchLoggedIn = w,
                                                !.clientWindow = cw]
    /\ server = FALSE
    /\ auth = InitAuth
    /\ route = HomeRoute
    /\ runs = [i \in Runs |-> IdleRun]
    /\ logins = [l \in Logins |-> IdleLogin]
    /\ refresh = NoRefresh
    /\ calls = [c \in Calls |-> IdleCall]
    /\ op = NoOp

\* time passes the expiry of the access token, of the refresh token
TokenExpires ==
    /\ Truthy(auth.token.value) /\ ~auth.token.expired
    /\ auth' = [ClearFx(auth) EXCEPT !.token.expired = TRUE]
    /\ op' = [NoOp EXCEPT !.name = "tokenExpires"]
    /\ UNCHANGED <<options, server, route, runs, logins, refresh, calls>>

RefreshTokenExpires ==
    /\ Truthy(auth.refreshToken.value) /\ ~auth.refreshToken.expired
    /\ auth' = [ClearFx(auth) EXCEPT !.refreshToken.expired = TRUE]
    /\ op' = [NoOp EXCEPT !.name = "refreshTokenExpires"]
    /\ UNCHANGED <<options, server, route, runs, logins, refresh, calls>>

\* a caller asks check(checkStatus)
Check ==
    \E checkStatus \in BOOLEAN :
        /\ auth' = ClearFx(auth)
        /\ op' = [NoOp EXCEPT !.name = "check", !.checkStatus = checkStatus,
                              !.result = check(ClearFx(auth), checkStatus)]
        /\ UNCHANGED <<options, server, route, runs, logins, refresh, calls>>

\* a caller asks reset()
Reset ==
    /\ auth' = reset(ClearFx(auth))
    /\ op' = [NoOp EXCEPT !.name = "reset", !.before = Before(auth)]
    /\ UNCHANGED <<options, server, route, runs, logins, refresh, calls>>

\* a caller asks fetchUser(); slot 1 is mounted()'s
FetchUser ==
    \E i \in Runs \ {1} :
        /\ runs[i].pc = "idle"
        /\ \A j \in Runs \ {1} : j < i => runs[j].pc # "idle"
        /\ LET f == fetchUser(ClearFx(auth))
           IN  /\ auth' = f.auth
               /\ runs' = [runs EXCEPT ![i] = IF f.pc = "done" THEN IdleRun
                                              ELSE [pc |-> f.pc, loc |-> f.loc]]
        /\ op' = [NoOp EXCEPT !.name = "fetchUser", !.before = Before(auth)]
        /\ UNCHANGED <<options, server, route, logins, refresh, calls>>

\* the user-info endpoint answers a suspended fetchUser()
UserInfoResponse ==
    \E i \in Runs, user \in Users :
        /\ runs[i].pc = "userInfo"
        /\ auth' = fetchUserResume(ClearFx(auth), user)
        /\ runs' = [runs EXCEPT ![i] = IF i = 1 THEN [pc |-> "done", loc |-> NoLocals]
                                       ELSE IdleRun]
        /\ op' = [NoOp EXCEPT !.name = "userInfoResponse"]
        /\ UNCHANGED <<options, server, route, logins, refresh, calls>>

\* the user-info request fails: fetchUser() rejects
UserInfoFailure ==
    \E i \in Runs :
        /\ runs[i].pc = "userInfo"
        /\ auth' = Effect(ClearFx(auth), "throw")
        /\ runs' = [runs EXCEPT ![i] = IF i = 1 THEN [pc |-> "done", loc |-> NoLocals]
                                       ELSE IdleRun]
        /\ op' = [NoOp EXCEPT !.name = "userInfoFailure"]
        /\ UNCHANGED <<options, server, route, logins, refresh, calls>>

\* a caller asks logout()
Logout ==
    /\ ~server
    /\ auth' = logout(ClearFx(auth))
    /\ op' = [NoOp EXCEPT !.name = "logout", !.before = Before(auth)]
    /\ UNCHANGED <<options, server, route, runs, logins, refresh, calls>>

Next ==
    \/ Load
    \/ TokenResponse
    \/ TokenFailure
    \/ Login
    \/ LoginResume

Spec == Init /\ [][Next]_vars

-----------------------------------------------------------------------------
(* Properties of the callback flow *)

OnCallbackRoute(r) == normalizePath(r.path) = normalizePath(CallbackPath)

WritesOrRedirects == {"token.set", "refreshToken.set", "redirect"}

\* C1: a stored state is single-use: once a callback handler has consumed the
\* stored state on a URL, a later load of the same URL (no login() in between)
\* writes no token, writes no refresh token and redirects nowhere.
C1_ReplayFails == op.replay => auth.fx \cap WritesOrRedirects = {}

\* C2: when mounted() runs its callback handler in the browser on the callback
\* route with a non-empty stored state and the URL's state differs from it, then
\* whatever else the URL carries, the Token and RefreshToken stores are unchanged,
\* reset is not called, no token request and no redirect are made, and the stored
\* state is null afterwards.
C2_MismatchIgnored ==
    [][(/\ op'.name = "mounted"
        /\ OnCallbackRoute(route') /\ ~server
        /\ Truthy(auth.storage.state)
        /\ parsedQuery(route').state # auth.storage.state)
       => (/\ auth'.token = auth.token
           /\ auth'.refreshToken = auth.refreshToken
           /\ auth'.fx \cap {"reset", "request", "redirect", "token.set",
                             "refreshToken.set"} = {}
           /\ runs'[1].pc # "exchange"
           /\ auth'.storage.state = Null)]_vars

\* a mounted() whose handler found the stored state "xyz" and a URL with state
\* "bad", a token, a refresh token and a code
C2_Witness ==
    /\ op.name = "mounted" /\ OnCallbackRoute(route) /\ ~server
    /\ op.stored = "xyz"
    /\ parsedQuery(route) = [state |-> "bad", access_token |-> "T0",
                             refresh_token |-> "R0", code |-> "abc"]
    /\ auth.storage.state = Null
    /\ auth.token.value = Null

\* C3: with responseType 'code' and PKCE 'S256', after a login a callback that
\* carries a code and the stored state, answered by the token endpoint with
\* {access_token: T1, refresh_token: R1}, leaves T1 in the Token store, R1 in the
\* RefreshToken store and neither a PKCE verifier nor a state in storage.
C3_CodeFlow ==
    (/\ op.name = "tokenResponse"
     /\ options.responseType = "code" /\ options.codeChallengeMethod = "S256"
     /\ Truthy(op.stored) /\ route.handled
     /\ op.response = [access_token |-> "T1", refresh_token |-> "R1"])
    => (/\ auth.token.value = "T1"
        /\ auth.refreshToken.value = "R1"
        /\ auth.storage.pkce_code_verifier = Null
        /\ auth.storage.state = Null)

C3_Witness ==
    /\ op.name = "tokenResponse"
    /\ options.responseType = "code" /\ options.codeChallengeMethod = "S256"
    /\ op.stored = "xyz" /\ parsedQuery(route).state = "xyz" /\ route.handled
    /\ parsedQuery(route).code = "abc"
    /\ op.response = [access_token |-> "T1", refresh_token |-> "R1"]
    /\ auth.token.value = "T1" /\ auth.refreshToken.value = "R1"
    /\ auth.url.code_challenge = Challenges["v1"]

\* C16: a callback that resolves no usable token (the merged URL parameters have no
\* token or an empty one, and the token response, if one was asked for, has none
\* either) is a no-op: no reset, the Token and RefreshToken stores unchanged even
\* with a refresh token on the URL or in the response, no message to the opener
\* and no redirect.
C16_NoTokenNoOp ==
    [][(\/ /\ op'.name = "mounted" /\ runs'[1].pc # "exchange"
           /\ ~Truthy(parsedQuery(route').access_token)
        \/ /\ op'.name = "tokenResponse"
           /\ ~Truthy(parsedQuery(route).access_token)
           /\ ~Truthy(op'.response.access_token))
       => (/\ auth'.token = auth.token
           /\ auth'.refreshToken = auth.refreshToken
           /\ auth'.fx \cap {"reset", "token.set", "refreshToken.set", "postMessage",
                             "redirect"} = {})]_vars

\* in a popup, the handler found the stored state on the URL, with an empty token
\* and a code; the token endpoint answered with a refresh token and an empty token
C16_Witness ==
    /\ op.name = "tokenResponse" /\ op.stored = "xyz"
    /\ options.clientWindow /\ route.opener
    /\ parsedQuery(route).state = "xyz" /\ parsedQuery(route).access_token = ""
    /\ op.response = [access_token |-> "", refresh_token |-> "R1"]
    /\ auth.fx \cap {"token.set", "refreshToken.set", "postMessage"} = {}

\* C19: once the callback handler has consumed the callback that carries the
\* stored state, nothing that login() persisted for the attempt is left in
\* storage: no state, no PKCE state, no PKCE code verifier.
C19_TransientsCleared ==
    (/\ op.name = "mounted" /\ OnCallbackRoute(route) /\ ~server
     /\ Truthy(op.stored) /\ parsedQuery(route).state = op.stored)
    => (/\ auth.storage.state = Null
        /\ auth.storage.pkce_state = Null
        /\ auth.storage.pkce_code_verifier = Null)

\* login() has reached its popup branch with the step taken last
LoginAtPopup ==
    /\ options.clientWindow
    /\ \/ op.name = "loginResume"
       \/ op.name = "login" /\ options.codeChallengeMethod \notin {"plain", "S256"}

\* C20: in popup mode login() opens a popup when it holds no live popup handle
\* (never assigned, cleared, or of a closed window), and with a live handle it
\* focuses that popup, opens none and registers no listener.
C20_PopupOpenOrFocus ==
    [][LoginAtPopup'
       => IF auth.window.ref = "open"
          THEN /\ "focus" \in auth'.fx /\ "window.open" \notin auth'.fx
               /\ auth'.window = auth.window
          ELSE /\ "window.open" \in auth'.fx /\ "focus" \notin auth'.fx
               /\ Len(auth'.window.watchers) = Len(auth.window.watchers) + 1]_vars

\* how often, and in which order, a step made its calls
Count(order, e) == Cardinality({i \in DOMAIN order : order[i] = e})

InOrder(order, e1, e2) ==
    \A i, j \in DOMAIN order : (order[i] = e1 /\ order[j] = e2) => i < j

\* a mounted() has run to its end with the step taken last
MountedEnded ==
    /\ op.name \in {"mounted", "tokenResponse", "tokenFailure"}
    /\ runs[1].pc # "exchange"

\* C14 as claimed: a mounted() whose callback handler wrote a token does not call
\* the user fetch, and one whose handler wrote none calls it once, after the
\* interceptor was installed.
C14_FetchIffNoToken ==
    MountedEnded
    => (/\ "token.set" \in auth.fx => "fetchUserOnce" \notin auth.fx
        /\ "token.set" \notin auth.fx
            => (/\ Count(auth.order, "fetchUserOnce") = 1
                /\ auth.interceptor
                /\ InOrder(auth.order, "initializeRequestInterceptor", "fetchUserOnce")))

\* C14, amended: what keeps mounted() from the user fetch is the redirect of its
\* callback handler, which follows a written token only outside popup mode and
\* with watchLoggedIn on. A mounted() whose handler redirected does not call
\* fetchUserOnce; every other mounted() that returns, with a token written or not,
\* calls it once, after the interceptor was installed; and a mounted() whose token
\* request failed rejects without calling it.
C14_FetchUnlessRedirected ==
    MountedEnded
    => IF op.name = "tokenFailure"
       THEN "fetchUserOnce" \notin auth.fx /\ "throw" \in auth.fx
       ELSE /\ "redirect" \in auth.fx
                <=> (/\ "token.set" \in auth.fx
                     /\ ~options.clientWindow /\ options.watchLoggedIn)
            /\ "redirect" \in auth.fx => "fetchUserOnce" \notin auth.fx
            /\ "redirect" \notin auth.fx
                => (/\ Count(auth.order, "fetchUserOnce") = 1
                    /\ auth.interceptor
                    /\ InOrder(auth.order, "initializeRequestInterceptor",
                               "fetchUserOnce"))

\* a mounted() whose handler wrote the callback's token, did not redirect, and
\* which then fetched the user
C14_Witness ==
    /\ op.name = "mounted" /\ ~options.watchLoggedIn
    /\ auth.order = <<"initializeRequestInterceptor", "consume", "token.set",
                      "fetchUserOnce", "setUser">>
    /\ auth.token.value = "T0" /\ auth.user = EmptyUser

-----------------------------------------------------------------------------
(* The session's life: tokens arrive with a callback, expire, are checked *)

\* endpoints.logout and logoutRedirectUri: no endpoint, an endpoint with the
\* default redirect URI, an endpoint with a redirect URI of its own
LogoutOptions ==
    {[logout |-> FALSE, logoutRedirectUri |-> Null],
     [logout |-> TRUE, logoutRedirectUri |-> Null],
     [logout |-> TRUE, logoutRedirectUri |-> "https://app/bye"]}

\* the page finds in storage what earlier sessions left there
InitCheck ==
    /\ \E al \in BOOLEAN, lo \in LogoutOptions, ui \in BOOLEAN :
            options = [DefaultOptions EXCEPT !.autoLogout = al, !.logout = lo.logout,
                                             !.logoutRedirectUri = lo.logoutRedirectUri,
                                             !.userInfo = ui]
    /\ server = FALSE
    /\ \E t \in {Null, "T0"}, rt \in {Null, "R0"} :
            auth = [InitAuth EXCEPT !.token = NewToken(t), !.refreshToken = NewToken(rt)]
    /\ route = HomeRoute
    /\ runs = [i \in Runs |-> IdleRun]
    /\ logins = [l \in Logins |-> IdleLogin]
    /\ refresh = NoRefresh
    /\ calls = [c \in Calls |-> IdleCall]
    /\ op = NoOp

NextCheck ==
    \/ Reload
    \/ TokenExpires
    \/ RefreshTokenExpires
    \/ Check
    \/ Reset
    \/ Logout
    \/ FetchUser
    \/ UserInfoResponse
    \/ UserInfoFailure

SpecCheck == InitCheck /\ [][NextCheck]_vars

OneOf(result) ==
    Cardinality({f \in {"valid", "tokenExpired", "refreshTokenExpired"} : result[f]}) <= 1

\* C6: check(false) returns valid = true exactly when a token is present, whatever
\* has expired, and reports no expiry.
C6_CheckFalse ==
    (op.name = "check" /\ ~op.checkStatus)
    => (/\ op.result.valid <=> Truthy(auth.token.value)
        /\ ~op.result.tokenExpired /\ ~op.result.refreshTokenExpired)

\* check(false) answering valid with both tokens expired
C6_Witness ==
    /\ op.name = "check" /\ ~op.checkStatus
    /\ Expired(auth.token) /\ Expired(auth.refreshToken)
    /\ op.result.valid

\* C7: check(true) with a token present and both tokens expired reports
\* refreshTokenExpired and not tokenExpired.
C7_RefreshExpiryFirst ==
    (/\ op.name = "check" /\ op.checkStatus
     /\ Expired(auth.token) /\ Expired(auth.refreshToken))
    => (op.result.refreshTokenExpired /\ ~op.result.tokenExpired /\ ~op.result.valid)

C7_Witness ==
    /\ op.name = "check" /\ op.checkStatus
    /\ Expired(auth.token) /\ Expired(auth.refreshToken)
    /\ op.result.refreshTokenExpired

\* C8: the result of check has at most one of valid, tokenExpired and
\* refreshTokenExpired set, and none of them when no token is present.
C8_AtMostOne ==
    op.name = "check"
    => (/\ OneOf(op.result)
        /\ ~Truthy(auth.token.value)
            => (~op.result.valid /\ ~op.result.tokenExpired
                    /\ ~op.result.refreshTokenExpired))

\* check(true) with no token in the store and an expired refresh token
C8_Witness ==
    /\ op.name = "check" /\ op.checkStatus
    /\ ~Truthy(auth.token.value) /\ Expired(auth.refreshToken)
    /\ ~op.result.valid /\ ~op.result.tokenExpired /\ ~op.result.refreshTokenExpired

C13_MountedResetsIff ==
    [][op'.name = "mounted"
       => (/\ "reset" \in auth'.fx
                <=> (\/ op'.result.refreshTokenExpired
                     \/ op'.result.tokenExpired /\ options.autoLogout)
           /\ (Expired(auth.token) /\ ~Expired(auth.refreshToken) /\ ~options.autoLogout)
                => (/\ op'.result.tokenExpired
                    /\ "token.set" \notin auth'.fx => auth'.token = auth.token
                    /\ "refreshToken.set" \notin auth'.fx
                        => auth'.refreshToken = auth.refreshToken))]_vars

\* mounted() with autoLogout off finds the access token expired and the refresh
\* token alive, and leaves both
C13_Witness ==
    /\ op.name = "mounted" /\ op.result.tokenExpired /\ ~options.autoLogout
    /\ "reset" \notin auth.fx
    /\ auth.token = [value |-> "T0", expired |-> TRUE]
    /\ auth.refreshToken = [value |-> "R0", expired |-> FALSE]

\* C15: fetchUser() with no token present changes nothing and sends no request;
\* with a token and no user-info endpoint it sets the user to the empty object and
\* sends no request; it asks the user-info endpoint exactly when a token is
\* present and the endpoint is configured, and it never touches the token stores.
C15_FetchUser ==
    [][op'.name = "fetchUser"
       => LET valid == Truthy(auth.token.value)
          IN  /\ ~valid => (auth' = ClearFx(auth) /\ runs' = runs)
              /\ (valid /\ ~options.userInfo)
                    => (/\ auth'.user = EmptyUser
                        /\ auth'.order = <<"setUser">>
                        /\ runs' = runs)
              /\ "userInfo" \in auth'.fx <=> (valid /\ options.userInfo)
              /\ "userInfo" \in auth'.fx
                    => (/\ auth'.user = auth.user
                        /\ \E i \in Runs : runs[i].pc = "idle" /\ runs'[i].pc = "userInfo")
              /\ auth'.token = auth.token /\ auth'.refreshToken = auth.refreshToken]_vars

\* fetchUser() asks the user-info endpoint on a session whose token has expired
C15_Witness ==
    /\ op.name = "fetchUser" /\ options.userInfo
    /\ "userInfo" \in auth.fx
    /\ auth.token = [value |-> "T0", expired |-> TRUE]
    /\ \E i \in Runs \ {1} : runs[i].pc = "userInfo"

\* C11: logout() always resets the session: user unset, token and refresh token
\* cleared; with a logout endpoint configured it first sends the browser there, with
\* the client id and the post-logout redirect URI, and with none it sends the
\* browser nowhere.
C11_LogoutResets ==
    op.name = "logout"
    => (/\ "reset" \in auth.fx
        /\ auth.user = NoUser /\ auth.token.value = Null /\ auth.refreshToken.value = Null
        /\ options.logout
            => (/\ auth.order = <<"location.replace", "reset">>
                /\ auth.location = [endpoint |-> "logout", client_id |-> options.clientId,
                                    redirect_uri |-> logoutRedirectURI])
        /\ ~options.logout => auth.order = <<"reset">>)

\* logout() with an endpoint and a redirect URI of its own, on a session that held
\* a token and a refresh token
C11_Witness ==
    /\ op.name = "logout" /\ options.logout
    /\ op.before.token.value = "T0" /\ op.before.refreshToken.value = "R0"
    /\ auth.location.redirect_uri = "https://app/bye"
    /\ auth.order = <<"location.replace", "reset">>
    /\ auth.token.value = Null

-----------------------------------------------------------------------------
(* Refresh: requests through the interceptor, refreshes through the controller *)

\* a caller joins the refresh handleRefresh returns, or learns its outcome at once
Join(c, kind, h) ==
    LET call == [kind |-> kind, pc |-> "refreshing",
                 retries |-> IF kind = "request" THEN calls[c].retries ELSE 0,
                 refreshes |-> IF kind = "request" THEN calls[c].refreshes + 1 ELSE 1,
                 outcome |-> NoOutcome]
    IN  /\ auth' = h.auth
        /\ refresh' = h.refresh
        /\ calls' = [calls EXCEPT ![c] =
                        IF h.status = "pending" THEN call
                        ELSE settle(call,
                                    [NoOutcome EXCEPT
                                        !.status = h.status,
                                        !.error = IF h.status = "error"
                                                  THEN ExpiredAuthSessionError
                                                  ELSE Null])]

\* a request is sent through the interceptor, which attaches the current token
SendRequest ==
    \E c \in Calls :
        /\ calls[c].pc = "idle" /\ auth.interceptor
        /\ calls' = [calls EXCEPT ![c] = [IdleCall EXCEPT !.pc = "sent"]]
        /\ auth' = [ClearFx(auth) EXCEPT !.header = auth.token.value]
        /\ op' = [NoOp EXCEPT !.name = "sendRequest"]
        /\ UNCHANGED <<options, server, route, runs, logins, refresh>>

\* the request, or its retry, is answered
RequestDone ==
    \E c \in Calls :
        /\ calls[c].pc \in {"sent", "retry"}
        /\ calls' = [calls EXCEPT ![c] = [IdleCall EXCEPT !.outcome = calls[c].outcome]]
        /\ auth' = ClearFx(auth)
        /\ op' = [NoOp EXCEPT !.name = "requestDone"]
        /\ UNCHANGED <<options, server, route, runs, logins, refresh>>

\* the request, or its retry, is answered with an authorization failure
Unauthorized ==
    \E c \in Calls :
        /\ calls[c].pc \in {"sent", "retry"}
        /\ IF onUnauthorized(calls[c]) = "refresh"
           THEN Join(c, "request", handleRefresh(clearHeader(ClearFx(auth)), refresh))
           ELSE /\ calls' = [calls EXCEPT ![c] =
                                [IdleCall EXCEPT !.outcome = calls[c].outcome]]
                /\ auth' = Effect(ClearFx(auth), "surface")
                /\ UNCHANGED refresh
        /\ op' = [NoOp EXCEPT !.name = "unauthorized",
                              !.refreshExpired = Expired(auth.refreshToken)]
        /\ UNCHANGED <<options, server, route, runs, logins>>

\* a caller asks for a refresh
RefreshTokens ==
    \E c \in Calls :
        /\ calls[c].pc = "idle"
        /\ Join(c, "refresh", handleRefresh(ClearFx(auth), refresh))
        /\ op' = [NoOp EXCEPT !.name = "refreshTokens",
                              !.refreshExpired = Expired(auth.refreshToken)]
        /\ UNCHANGED <<options, server, route, runs, logins>>

Waiting(c) == calls[c].pc = "refreshing"

\* the token endpoint answers a refresh request
RefreshResponse ==
    \E response \in TokenResponses :
        /\ refresh.requests > 0
        /\ auth' = refreshTokensResume(ClearFx(auth), response)
        /\ refresh' = [pending |-> FALSE, requests |-> refresh.requests - 1]
        /\ calls' = [c \in Calls |->
                        IF Waiting(c)
                        THEN settle(calls[c], [NoOutcome EXCEPT !.status = "ok",
                                                                !.response = response])
                        ELSE calls[c]]
        /\ op' = [NoOp EXCEPT !.name = "refreshResponse", !.response = response]
        /\ UNCHANGED <<options, server, route, runs, logins>>

\* a refresh request fails
RefreshFailure ==
    \E error \in Errors :
        /\ refresh.requests > 0
        /\ LET f == refreshTokensFailed(ClearFx(auth), error)
           IN  /\ auth' = f.auth
               /\ calls' = [c \in Calls |->
                                IF Waiting(c)
                                THEN settle(calls[c], [NoOutcome EXCEPT !.status = "error",
                                                                        !.error = f.error])
                                ELSE calls[c]]
        /\ refresh' = [pending |-> FALSE, requests |-> refresh.requests - 1]
        /\ op' = [NoOp EXCEPT !.name = "refreshFailure", !.error = error]
        /\ UNCHANGED <<options, server, route, runs, logins>>

\* a mounted page that holds a token and maybe a refresh token
InitRefresh ==
    /\ options = DefaultOptions
    /\ server = FALSE
    /\ \E rt \in {Null, "R0"} :
            auth = [InitAuth EXCEPT !.token = NewToken("T0"),
                                    !.refreshToken = NewToken(rt),
                                    !.interceptor = TRUE, !.user = EmptyUser]
    /\ route = HomeRoute
    /\ runs = [i \in Runs |-> IdleRun]
    /\ logins = [l \in Logins |-> IdleLogin]
    /\ refresh = NoRefresh
    /\ calls = [c \in Calls |-> IdleCall]
    /\ op = NoOp

NextRefresh ==
    \/ SendRequest
    \/ RequestDone
    \/ Unauthorized
    \/ RefreshTokens
    \/ RefreshResponse
    \/ RefreshFailure
    \/ RefreshTokenExpires
    \/ Reset

SpecRefresh == InitRefresh /\ [][NextRefresh]_vars

\* C4: at most one refresh request to the token endpoint is in flight; a refresh
\* asked for while one is pending issues no request; and all the callers waiting
\* for a refresh get the one outcome it ends with.
C4_SingleFlight ==
    [][/\ refresh'.requests <= 1
       /\ (op'.name \in {"refreshTokens", "unauthorized"} /\ refresh.pending)
            => (refresh'.requests = refresh.requests /\ "request" \notin auth'.fx)
       /\ op'.name \in {"refreshResponse", "refreshFailure"}
            => \A c \in Calls :
                    Waiting(c)
                    => (/\ calls'[c].outcome.status
                                = (IF op'.name = "refreshResponse" THEN "ok" ELSE "error")
                        /\ calls'[c].outcome.response = op'.response
                        /\ \A d \in Calls :
                                Waiting(d) => calls'[d].outcome = calls'[c].outcome)
      ]_vars

\* two callers wait for the one refresh request in flight
C4_Witness ==
    /\ refresh.pending /\ refresh.requests = 1
    /\ \E c, d \in Calls : c # d /\ Waiting(c) /\ Waiting(d)

\* C5: refreshTokens() with a refresh token that is present and expired calls
\* reset, throws the expired-session error and sends no token request.
C5_ExpiredRefresh ==
    [][(op'.name = "refreshTokens" /\ ~refresh.pending /\ Expired(auth.refreshToken))
       => (/\ {"reset", "throw"} \subseteq auth'.fx
           /\ "request" \notin auth'.fx
           /\ refresh' = refresh
           /\ auth'.token.value = Null /\ auth'.refreshToken.value = Null
           /\ \A c \in Calls : calls'[c].pc = "refreshing" => calls[c].pc = "refreshing")
      ]_vars

C5_Witness ==
    /\ op.name = "refreshTokens" /\ op.refreshExpired
    /\ {"reset", "throw"} \subseteq auth.fx
    /\ refresh.requests = 0
    /\ \E c \in Calls : calls[c].kind = "refresh" /\ calls[c].outcome.status = "error"

\* C12: reset() can be called in every state and leaves the user unset, no token,
\* no refresh token and no authorization header; a second reset() changes nothing
\* more; and check(true) and check(false) right after it both answer valid = false,
\* tokenExpired = false, refreshTokenExpired = false.
C12_ResetIdempotent ==
    /\ ENABLED Reset
    /\ op.name = "reset"
        => (/\ auth.user = NoUser
            /\ auth.token = NewToken(Null) /\ auth.refreshToken = NewToken(Null)
            /\ auth.header = Null
            /\ ClearFx(reset(auth)) = ClearFx(auth)
            /\ \A checkStatus \in BOOLEAN :
                    LET result == check(auth, checkStatus)
                    IN  ~result.valid /\ ~result.tokenExpired
                            /\ ~result.refreshTokenExpired)

\* reset() on a session with a user, a token in the store and in the header, and
\* an expired refresh token, while a refresh request is in flight
C12_Witness ==
    /\ op.name = "reset"
    /\ op.before.user = EmptyUser /\ op.before.token.value = "T0"
    /\ op.before.header = "T0" /\ Expired(op.before.refreshToken)
    /\ refresh.pending
    /\ auth.header = Null /\ auth.token.value = Null

\* C17: refreshTokens() with no refresh token present returns without error and
\* changes nothing: no token request, the authorization header not cleared, the
\* Token and RefreshToken stores and the user as they were.
C17_NoRefreshToken ==
    [][(op'.name = "refreshTokens" /\ ~refresh.pending /\ ~Truthy(auth.refreshToken.value))
       => (/\ auth' = ClearFx(auth)
           /\ refresh' = refresh
           /\ \A c \in Calls :
                calls'[c] # calls[c]
                => (/\ calls'[c].pc = "idle" /\ calls'[c].kind = "refresh"
                    /\ calls'[c].outcome = [NoOutcome EXCEPT !.status = "ok"]))]_vars

\* refreshTokens() returned at once on a session with a token in the store and in
\* the header, a user, and no refresh token
C17_Witness ==
    /\ op.name = "refreshTokens" /\ auth.refreshToken.value = Null
    /\ auth.token.value = "T0" /\ auth.header = "T0" /\ auth.user = EmptyUser
    /\ auth.order = <<>> /\ ~refresh.pending
    /\ \E c \in Calls : calls[c].kind = "refresh" /\ calls[c].outcome.status = "ok"

\* C18: when the token request of refreshTokens() fails, the error callback is
\* called once, with that error; refreshTokens() rejects with the same error, so
\* that every caller waiting for the refresh gets it and none is retried; no other
\* request is sent; and the Token and RefreshToken stores keep their values.
C18_RefreshFailure ==
    [][op'.name = "refreshFailure"
       => (/\ Count(auth'.order, "onError") = 1
           /\ auth'.onError = op'.error
           /\ "throw" \in auth'.fx /\ "request" \notin auth'.fx
           /\ refresh'.requests = refresh.requests - 1
           /\ auth'.token = auth.token /\ auth'.refreshToken = auth.refreshToken
           /\ \A c \in Calls :
                Waiting(c)
                => (/\ calls'[c].pc = "idle"
                    /\ calls'[c].outcome = [NoOutcome EXCEPT !.status = "error",
                                                             !.error = op'.error]))]_vars

\* the refresh request failed with invalid_grant: the error went to the error
\* callback and to the caller, and the stores still hold both tokens
C18_Witness ==
    /\ op.name = "refreshFailure" /\ op.error = "invalid_grant"
    /\ auth.onError = "invalid_grant"
    /\ auth.token.value = "T0" /\ auth.refreshToken.value = "R0"
    /\ refresh.requests = 0
    /\ \E c \in Calls : /\ calls[c].kind = "refresh" /\ calls[c].pc = "idle"
                        /\ calls[c].outcome.error = "invalid_grant"

\* C10: the interceptor retries a request that met an authorization failure at
\* most once and only after a refresh that succeeded; a failed refresh ends the
\* request with no retry; and an authorization failure of the retry is surfaced,
\* with no further refresh and no further retry.
C10_RetryOnce ==
    [][\A c \in Calls :
        /\ calls'[c].retries <= 1 /\ calls'[c].refreshes <= 1
        /\ (calls'[c].pc = "retry" /\ calls[c].pc # "retry")
            => (/\ calls[c].pc \in {"sent", "refreshing"}
                /\ calls[c].retries = 0
                /\ calls'[c].outcome.status = "ok")
        /\ (calls[c].pc \in {"sent", "refreshing"} /\ calls'[c].outcome.status = "error")
            => calls'[c].pc = "idle"
        /\ (calls[c].pc = "retry" /\ calls'[c] # calls[c])
            => (/\ calls'[c].pc = "idle"
                /\ refresh'.requests <= refresh.requests
                /\ "request" \notin auth'.fx
                /\ op'.name = "unauthorized" => "surface" \in auth'.fx)
      ]_vars

\* the retry of a request met an authorization failure, which was surfaced
C10_Witness ==
    /\ op.name = "unauthorized" /\ "surface" \in auth.fx
    /\ \E c \in Calls : calls[c].pc = "idle" /\ calls[c].outcome.status = "ok"
                        /\ calls[c].kind = "request"

-----------------------------------------------------------------------------
(* Callbacks: the server context, the redirect options, overlapping handlers *)

\* the URLs of this part: the home route, and the callback route and two other
\* routes with the stored state next to a token, a code, both or neither
CallbackRoutes ==
    {HomeRoute} \cup {r \in Routes : /\ ~r.opener
                                     /\ parsedQuery(r).state = "xyz"
                                     /\ parsedQuery(r).refresh_token = Null}

\* what a login() that sent the browser away has left in storage, lines 237-259
AfterLogin ==
    [state |-> "xyz",
     pkce_state |-> IF options.codeChallengeMethod = "S256" THEN "v1" ELSE Null,
     pkce_code_verifier |-> IF options.codeChallengeMethod = "S256" THEN "v1" ELSE Null]

\* mounted() is invoked again on the scheme of the page, an earlier invocation
\* possibly still waiting for its token request
Mount ==
    \E i \in Runs :
        /\ runs[i].pc = "idle" /\ \A j \in Runs : j < i => runs[j].pc # "idle"
        /\ LET m == mounted(ClearFx(auth), route)
               consumed == "consume" \in m.auth.fx /\ Truthy(auth.storage.state)
           IN  /\ auth' = m.auth
               /\ runs' = [runs EXCEPT ![i] = [pc |-> m.pc, loc |-> m.loc]]
               /\ route' = [route EXCEPT !.handled = @ \/ consumed]
               /\ op' = [NoOp EXCEPT !.name = "mounted", !.replay = route.handled,
                                     !.stored = auth.storage.state,
                                     !.checkStatus = TRUE,
                                     !.result = check(ClearFx(auth), TRUE)]
        /\ UNCHANGED <<options, server, logins, refresh, calls>>

LoadCallback == LoadOn(CallbackRoutes)

InitCallback ==
    /\ \E rt \in {"token", "code"}, redirect \in BOOLEAN :
            options = [DefaultOptions EXCEPT
                            !.responseType = rt,
                            !.codeChallengeMethod = IF rt = "code" THEN "S256"
                                                    ELSE "implicit",
                            !.redirect = redirect]
    /\ server \in BOOLEAN
    /\ \E stored \in BOOLEAN :
            auth = IF stored THEN [InitAuth EXCEPT !.storage = AfterLogin] ELSE InitAuth
    /\ route = HomeRoute
    /\ runs = [i \in Runs |-> IdleRun]
    /\ logins = [l \in Logins |-> IdleLogin]
    /\ refresh = NoRefresh
    /\ calls = [c \in Calls |-> IdleCall]
    /\ op = NoOp

NextCallback ==
    \/ LoadCallback
    \/ Mount
    \/ TokenResponse
    \/ TokenFailure

SpecCallback == InitCallback /\ [][NextCallback]_vars

\* what the callback handler does to the world beyond the stores
HandlerEffects == {"consume", "request", "postMessage"} \cup WritesOrRedirects

\* C21: in the server context mounted() skips its callback handler entirely: the
\* stored state and the stored verifier are neither read out nor cleared, no
\* token request is issued or awaited, no token or refresh token is written,
\* nothing is posted to an opener and no redirect is made, whatever the route
\* and the URL carry.
C21_ServerSkipsCallback ==
    [][(server /\ op'.name = "mounted")
            => /\ auth'.storage = auth.storage
               /\ auth'.fx \cap HandlerEffects = {}
               /\ \A i \in Runs : runs'[i].pc # "exchange"]_vars

\* in the server context mounted() has run on the callback route, the URL carrying
\* the stored state and a code, the verifier in storage; it went on to the user
C21_Witness ==
    /\ server
    /\ op.name = "mounted"
    /\ OnCallbackRoute(route)
    /\ options.responseType = "code"
    /\ Truthy(parsedQuery(route).code)
    /\ parsedQuery(route).state = "xyz"
    /\ auth.storage.state = "xyz"
    /\ auth.storage.pkce_code_verifier = "v1"
    /\ "fetchUserOnce" \in auth.fx

\* the invocation of mounted() that began last: slots are taken lowest first
NewestRun(rs) ==
    CHOOSE i \in Runs : rs[i].pc # "idle" /\ \A j \in Runs : j > i => rs[j].pc = "idle"

\* a PKCE method is configured, line 370
PkceConfigured ==
    Truthy(options.codeChallengeMethod) /\ options.codeChallengeMethod # "implicit"

\* C23: with a PKCE method configured, the step of a callback handler that issues
\* the token request takes the verifier the request carries out of storage and
\* leaves storage without it, in that one step; the answer to the request and its
\* failure write no verifier back. So a second handler, overlapping or later,
\* finds none to send.
C23_VerifierSingleUse ==
    [][/\ (PkceConfigured /\ op'.name = "mounted" /\ "request" \in auth'.fx)
            => /\ runs'[NewestRun(runs')].pc = "exchange"
               /\ runs'[NewestRun(runs')].loc.codeVerifier
                    = auth.storage.pkce_code_verifier
               /\ auth'.storage.pkce_code_verifier = Null
       /\ op'.name \in {"tokenResponse", "tokenFailure"}
            => auth'.storage.pkce_code_verifier = auth.storage.pkce_code_verifier]_vars

\* two handlers overlap: the first sent the stored verifier, the second, begun
\* while the first waits, found none to send
C23_Witness ==
    /\ PkceConfigured
    /\ runs[1].pc = "exchange" /\ runs[1].loc.codeVerifier = "v1"
    /\ runs[2].pc = "exchange" /\ runs[2].loc.codeVerifier = Null
    /\ auth.storage.pkce_code_verifier = Null

\* the callback handler of the step left storage, the stores and the network alone
HandlerIdle ==
    /\ auth'.storage = auth.storage
    /\ auth'.fx \cap HandlerEffects = {}
    /\ runs'[NewestRun(runs')].pc # "exchange"

\* C26 as claimed: on a route other than the callback route mounted()'s callback
\* handler clears no stored state, issues no token request and writes no token,
\* whether the redirect options are configured or disabled.
C26_OnlyOnCallbackRoute ==
    [][(op'.name = "mounted" /\ ~OnCallbackRoute(route')) => HandlerIdle]_vars

\* C26, amended: with the redirect options configured, on a route other than the
\* callback route the handler clears no stored state, issues no token request
\* and writes no token.
C26_OnlyOnCallbackRouteIfRedirect ==
    [][(op'.name = "mounted" /\ options.redirect /\ ~OnCallbackRoute(route'))
            => HandlerIdle]_vars

\* in the browser, the redirect options configured, mounted() has run on the home
\* route with the stored state, a token and a code in the URL: the state and the
\* verifier are still stored, no token is written
C26_Witness ==
    /\ op.name = "mounted"
    /\ options.redirect /\ ~server
    /\ route.path = "/"
    /\ parsedQuery(route).state = "xyz"
    /\ parsedQuery(route).access_token = "T0"
    /\ parsedQuery(route).code = "abc"
    /\ options.responseType = "code"
    /\ auth.storage.state = "xyz"
    /\ auth.storage.pkce_code_verifier = "v1"
    /\ auth.token.value = Null
    /\ "fetchUserOnce" \in auth.fx

\* C27: a callback handler issues a token request or writes a token only when it
\* found a non-empty state in storage and the URL's state equals it; with no
\* state in storage no callback is accepted.
C27_AcceptsOnlyStoredState ==
    (op.name \in {"mounted", "tokenResponse"} /\ auth.fx \cap {"request", "token.set"} # {})
    => (Truthy(op.stored) /\ parsedQuery(route).state = op.stored)

-----------------------------------------------------------------------------
(* Logins: the PKCE challenge, what is persisted, overlapping calls *)

\* login($opts) with or without a state of the caller, in $opts or among its params
LoginWith == LoginOf({Null, "mine"}, {Null, "forced"}, GeneratedStrings)

InitLogin ==
    /\ \E ccm \in {Null, "implicit", "plain", "S256"}, cw \in BOOLEAN :
            options = [DefaultOptions EXCEPT !.responseType = "code",
                                             !.codeChallengeMethod = ccm,
                                             !.clientWindow = cw]
    /\ server = FALSE
    /\ auth = InitAuth
    /\ route = HomeRoute
    /\ runs = [i \in Runs |-> IdleRun]
    /\ logins = [l \in 1..MaxOverlap |-> IdleLogin]
    /\ refresh = NoRefresh
    /\ calls = [c \in Calls |-> IdleCall]
    /\ op = NoOp

NextLogin ==
    \/ LoginWith
    \/ LoginResume

SpecLogin == InitLogin /\ [][NextLogin]_vars

\* the characters of a string
Chars(str) == {SubSeq(str, i, i) : i \in 1..Len(str)}

\* C22: the challenge login() awaits is the verifier itself when the method is
\* plain; when the method is S256 it differs from the verifier, contains no "+"
\* and no "/" and does not end in "=".
C22_PkceChallenge ==
    op.name = "loginResume"
    => IF op.call.hashValue
       THEN /\ op.call.result # op.call.v
            /\ "+" \notin Chars(op.call.result)
            /\ "/" \notin Chars(op.call.result)
            /\ SubSeq(op.call.result, Len(op.call.result), Len(op.call.result)) # "="
       ELSE op.call.result = op.call.v

\* the S256 challenge of a verifier whose digest has "+", "/" and padding in base64
\* ("kk+OWJbpbgmOTWQZ1T5+K7A0/enlOhpg3AhF+2lbkDQ=")
C22_Witness ==
    /\ op.name = "loginResume"
    /\ op.call.hashValue
    /\ op.call.v = "8be2916947c503d2292237c3b4b1df2454627e18ef10d1873058ad77"
    /\ op.call.result = "kk-OWJbpbgmOTWQZ1T5-K7A0_enlOhpg3AhF-2lbkDQ"

\* the step sent the browser to the authorization endpoint or opened the popup on it
Navigates(a) == a.fx \cap {"location.replace", "window.open"} # {}

\* C25: a step of login() that replaces the location or opens the popup has
\* written the state to storage first, once, and the state is there; with the
\* method plain or S256 the verifier is in storage by then as well; with the
\* method implicit or unset no verifier is ever in storage.
C25_PersistedBeforeLeaving ==
    /\ Navigates(auth)
        => /\ Count(auth.order, "setUniversal.state") = 1
           /\ InOrder(auth.order, "setUniversal.state", "location.replace")
           /\ InOrder(auth.order, "setUniversal.state", "window.open")
           /\ Truthy(auth.storage.state)
           /\ options.codeChallengeMethod \in {"plain", "S256"}
                => auth.storage.pkce_code_verifier \in GeneratedStrings
    /\ options.codeChallengeMethod \notin {"plain", "S256"}
        => auth.storage.pkce_code_verifier = Null

\* login() with the method plain has replaced the location, the state and the
\* verifier in storage
C25_Witness ==
    /\ op.name = "loginResume"
    /\ options.codeChallengeMethod = "plain"
    /\ auth.order = <<"setUniversal.state", "location.replace">>
    /\ auth.storage.state = "xyz"
    /\ auth.storage.pkce_code_verifier \in GeneratedStrings
    /\ auth.url.code_challenge = auth.storage.pkce_code_verifier

\* C29: whenever a step of login() replaces the location or opens the popup, the
\* state of the authorization URL is the state in storage, also when it came from
\* the caller's params, and with the method plain or S256 the code_challenge of
\* the URL is the challenge of the verifier in storage, however two calls of
\* login() overlap.
C29_UrlMatchesStorage ==
    Navigates(auth)
    => /\ auth.url.state = auth.storage.state
       /\ options.codeChallengeMethod \in {"plain", "S256"}
            => auth.url.code_challenge
                = encodeURIComponent(
                    pkceChallengeFromVerifier(auth.storage.pkce_code_verifier,
                                              options.codeChallengeMethod = "S256"))

-----------------------------------------------------------------------------
(* updateTokens *)

\* C30: when a refresh request is answered, the Token store is set to the token
\* field of the response, whatever it is, and if the response carries no refresh
\* token the RefreshToken store is left as it was.
C30_RefreshKeepsRefreshToken ==
    [][op'.name = "refreshResponse"
            => /\ "token.set" \in auth'.fx
               /\ auth'.token = NewToken(getProp(op'.response, "access_token"))
               /\ ~Truthy(getProp(op'.response, "refresh_token"))
                    => (/\ auth'.refreshToken = auth.refreshToken
                        /\ "refreshToken.set" \notin auth'.fx)]_vars

\* a refresh was answered with a token and no refresh token: the new token is in
\* the Token store, the refresh token the request was made with is still stored
C30_Witness ==
    /\ op.name = "refreshResponse"
    /\ op.response = [access_token |-> "T1", refresh_token |-> Null]
    /\ auth.token.value = "T1"
    /\ auth.refreshToken.value = "R0"

====
